---- MODULE Spec2Model ----
(***************************************************************************)
(* KubernetesCredentials.get_client / get_resource_specific_client of      *)
(* prefect_kubernetes/credentials.py, as a state machine.                  *)
(*                                                                         *)
(* Two callers each run one acquisition (`with creds.get_client(...)`),    *)
(* each on its own credentials block.  Every call the code makes to the    *)
(* kubernetes library is one step, so that the steps of the two            *)
(* acquisitions interleave the way two threads would.  The library's       *)
(* process-wide default Configuration is the variable `ambient`.           *)
(***************************************************************************)
EXTENDS Naturals, Sequences, FiniteSets

\* The number of API calls a usage block makes on the yielded client, at most.
MaxUse == 1

None == "None"

\* No resource-specific client has been constructed.
NoClient == [variant |-> None, config |-> None, api_client |-> None]

\* The callers; each runs one `with credentials.get_client(...) as c:` block.
Acqs == {"t1", "t2"}

\* credentials.py:15-19
K8S_CLIENT_TYPES_Swapped ==
  [apps |-> "AppsV1Api", batch |-> "CoreV1Api", core |-> "BatchV1Api"]

K8S_CLIENT_TYPES ==
  [apps |-> "AppsV1Api", batch |-> "BatchV1Api", core |-> "CoreV1Api"]

\* Values a caller may pass as client_type (a str at run time, line 111).
ClientTypeInputs == {"apps", "batch", "core", "widgets"}

\* Values a caller may pass as `configuration` (line 82).
ConfigurationInputs == {None, "confA"}

\* Values of the credentials block's cluster_config field (line 76).
ClusterConfigs == {None, "ctx1", "ctx2"}

\* Outcomes of kube_config.load_incluster_config() (lines 143-144): it returns,
\* raises ConfigException, or raises something else.
InclusterOutcomes == {"ok", "ConfigException", "OSError"}

\* Errors a usage block may raise while it holds the client.
BlockErrors == {"TransportFailure"}

VARIABLES
  cluster_config,   \* self.cluster_config of each caller's credentials block
  pc,               \* where each acquisition is
  client_type,      \* the client_type argument
  configuration,    \* the configuration argument
  client_config,    \* line 101: the Configuration the generic ApiClient is built on
  ambient,          \* the library's process-wide default Configuration
  client,           \* the resource-specific client yielded, or NoClient
  error,            \* the exception in flight inside get_client, or None
  blockError,       \* the exception the usage block raised, or None
  observed,         \* what the caller's `with` statement ended with
  uses,             \* API calls made by the usage block
  trace             \* the calls made by each acquisition, in order

vars == <<cluster_config, pc, client_type, configuration, client_config, ambient,
          client, error, blockError, observed, uses, trace>>

\* The credentials blocks the callers hold: each block stores a context of its
\* own, or none.
CredentialsBlocks ==
  {cc \in [Acqs -> ClusterConfigs] :
     cc["t1"] \in {None, "ctx1"} /\ cc["t2"] \in {None, "ctx2"}}

Init ==
  /\ cluster_config \in CredentialsBlocks
  /\ pc = [a \in Acqs |-> "idle"]
  /\ client_type = [a \in Acqs |-> None]
  /\ configuration = [a \in Acqs |-> None]
  /\ client_config = [a \in Acqs |-> None]
  /\ ambient = "unset"
  /\ client = [a \in Acqs |-> NoClient]
  /\ error = [a \in Acqs |-> None]
  /\ blockError = [a \in Acqs |-> None]
  /\ observed = [a \in Acqs |-> None]
  /\ uses = [a \in Acqs |-> 0]
  /\ trace = [a \in Acqs |-> <<>>]

Log(a, ev) == trace' = [trace EXCEPT ![a] = Append(@, ev)]

\* Lines 101-103: client_config = configuration or Configuration(); the generic
\* ApiClient is constructed on it and its `with` block entered.  The generator
\* body then calls get_resource_specific_client (line 105).
GetClient(a, ct, conf) ==
  /\ pc[a] = "idle"
  /\ client_type' = [client_type EXCEPT ![a] = ct]
  /\ configuration' = [configuration EXCEPT ![a] = conf]
  /\ client_config' = [client_config EXCEPT ![a] = IF conf # None THEN conf ELSE "fresh"]
  /\ Log(a, "open_transport")
  /\ pc' = [pc EXCEPT ![a] = "resolve"]
  /\ UNCHANGED <<cluster_config, ambient, client, error, blockError, observed, uses>>

\* Line 144: the exception class the fallback chain catches.
Caught_Bare(exc) == TRUE

Caught(exc) == exc = "ConfigException"

\* Lines 139-140: self.cluster_config is set, so configure_client() is called on
\* it; it loads that context into the library's default Configuration, or raises.
ConfigureClient_NoElse(a, ok) ==
  /\ pc[a] = "resolve"
  /\ cluster_config[a] # None
  /\ IF ok
       THEN /\ Log(a, "configure_client")
            /\ ambient' = cluster_config[a]
            /\ error' = error
            /\ pc' = [pc EXCEPT ![a] = "fallback"]
       ELSE /\ trace' = [trace EXCEPT ![a] = @ \o <<"configure_client", "configure_client_raised">>]
            /\ ambient' = ambient
            /\ error' = [error EXCEPT ![a] = "ConfigureClientError"]
            /\ pc' = [pc EXCEPT ![a] = "finally"]
  /\ UNCHANGED <<cluster_config, client_type, configuration, client_config, client,
                 blockError, observed, uses>>

ConfigureClient_FallbackOnError(a, ok) ==
  /\ pc[a] = "resolve"
  /\ cluster_config[a] # None
  /\ IF ok
       THEN /\ Log(a, "configure_client")
            /\ ambient' = cluster_config[a]
            /\ pc' = [pc EXCEPT ![a] = "construct"]
       ELSE /\ trace' = [trace EXCEPT ![a] = @ \o <<"configure_client", "configure_client_raised">>]
            /\ ambient' = ambient
            /\ pc' = [pc EXCEPT ![a] = "fallback"]
  /\ UNCHANGED <<cluster_config, client_type, configuration, client_config, client,
                 error, blockError, observed, uses>>

ConfigureClient_DropsConfig(a, ok) ==
  /\ pc[a] = "resolve"
  /\ cluster_config[a] # None
  /\ IF ok
       THEN /\ Log(a, "configure_client")
            /\ ambient' = cluster_config[a]
            /\ error' = error
            /\ cluster_config' = cluster_config
            /\ pc' = [pc EXCEPT ![a] = "construct"]
       ELSE /\ trace' = [trace EXCEPT ![a] = @ \o <<"configure_client", "configure_client_raised">>]
            /\ ambient' = ambient
            /\ error' = [error EXCEPT ![a] = "ConfigureClientError"]
            /\ cluster_config' = [cluster_config EXCEPT ![a] = None]
            /\ pc' = [pc EXCEPT ![a] = "finally"]
  /\ UNCHANGED <<client_type, configuration, client_config, client,
                 blockError, observed, uses>>

ConfigureClient(a, ok) ==
  /\ pc[a] = "resolve"
  /\ cluster_config[a] # None
  /\ IF ok
       THEN /\ Log(a, "configure_client")
            /\ ambient' = cluster_config[a]
            /\ error' = error
            /\ pc' = [pc EXCEPT ![a] = "construct"]
       ELSE /\ trace' = [trace EXCEPT ![a] = @ \o <<"configure_client", "configure_client_raised">>]
            /\ ambient' = ambient
            /\ error' = [error EXCEPT ![a] = "ConfigureClientError"]
            /\ pc' = [pc EXCEPT ![a] = "finally"]
  /\ UNCHANGED <<cluster_config, client_type, configuration, client_config, client,
                 blockError, observed, uses>>

\* Lines 141-144: no cluster_config, so load_incluster_config() is tried; a
\* ConfigException is caught and leads to line 145, any other exception leaves
\* get_resource_specific_client.
LoadIncluster_AlwaysFallback(a, outcome) ==
  /\ pc[a] = "resolve"
  /\ cluster_config[a] = None
  /\ IF outcome = "ok"
       THEN /\ Log(a, "load_incluster_config")
            /\ ambient' = "incluster"
            /\ error' = error
            /\ pc' = [pc EXCEPT ![a] = "fallback"]
       ELSE /\ trace' = [trace EXCEPT ![a] =
                           @ \o <<"load_incluster_config", "load_incluster_config_raised_" \o outcome>>]
            /\ ambient' = ambient
            /\ IF outcome = "ConfigException"
                 THEN /\ error' = error
                      /\ pc' = [pc EXCEPT ![a] = "fallback"]
                 ELSE /\ error' = [error EXCEPT ![a] = outcome]
                      /\ pc' = [pc EXCEPT ![a] = "finally"]
  /\ UNCHANGED <<cluster_config, client_type, configuration, client_config, client,
                 blockError, observed, uses>>

LoadIncluster(a, outcome) ==
  /\ pc[a] = "resolve"
  /\ cluster_config[a] = None
  /\ IF outcome = "ok"
       THEN /\ Log(a, "load_incluster_config")
            /\ ambient' = "incluster"
            /\ error' = error
            /\ pc' = [pc EXCEPT ![a] = "construct"]
       ELSE /\ trace' = [trace EXCEPT ![a] =
                           @ \o <<"load_incluster_config", "load_incluster_config_raised_" \o outcome>>]
            /\ ambient' = ambient
            /\ IF Caught(outcome)
                 THEN /\ error' = error
                      /\ pc' = [pc EXCEPT ![a] = "fallback"]
                 ELSE /\ error' = [error EXCEPT ![a] = outcome]
                      /\ pc' = [pc EXCEPT ![a] = "finally"]
  /\ UNCHANGED <<cluster_config, client_type, configuration, client_config, client,
                 blockError, observed, uses>>

\* Line 145: load_kube_config() inside the except clause; nothing catches what
\* it raises.
LoadKubeConfig_Swallow(a, ok) ==
  /\ pc[a] = "fallback"
  /\ IF ok
       THEN /\ Log(a, "load_kube_config")
            /\ ambient' = "kubeconfig"
       ELSE /\ trace' = [trace EXCEPT ![a] = @ \o <<"load_kube_config", "load_kube_config_raised">>]
            /\ ambient' = ambient
  /\ pc' = [pc EXCEPT ![a] = "construct"]
  /\ UNCHANGED <<cluster_config, client_type, configuration, client_config, client,
                 error, blockError, observed, uses>>

LoadKubeConfig_Retry(a, ok) ==
  /\ pc[a] = "fallback"
  /\ IF ok
       THEN /\ Log(a, "load_kube_config")
            /\ ambient' = "kubeconfig"
            /\ pc' = [pc EXCEPT ![a] = "construct"]
       ELSE /\ trace' = [trace EXCEPT ![a] = <<"open_transport">>]
            /\ ambient' = ambient
            /\ pc' = [pc EXCEPT ![a] = "resolve"]
  /\ UNCHANGED <<cluster_config, client_type, configuration, client_config, client,
                 error, blockError, observed, uses>>

LoadKubeConfig(a, ok) ==
  /\ pc[a] = "fallback"
  /\ IF ok
       THEN /\ Log(a, "load_kube_config")
            /\ ambient' = "kubeconfig"
            /\ error' = error
            /\ pc' = [pc EXCEPT ![a] = "construct"]
       ELSE /\ trace' = [trace EXCEPT ![a] = @ \o <<"load_kube_config", "load_kube_config_raised">>]
            /\ ambient' = ambient
            /\ error' = [error EXCEPT ![a] = "KubeConfigError"]
            /\ pc' = [pc EXCEPT ![a] = "finally"]
  /\ UNCHANGED <<cluster_config, client_type, configuration, client_config, client,
                 blockError, observed, uses>>

\* Lines 147-153 and the yield of line 105: K8S_CLIENT_TYPES[client_type]() is
\* called without arguments (no api_client, no configuration), so the client
\* makes an ApiClient of its own, on the library's default Configuration as it
\* is at that moment; a KeyError becomes a ValueError.
ConstructClient(a) ==
  /\ pc[a] = "construct"
  /\ IF client_type[a] \in DOMAIN K8S_CLIENT_TYPES
       THEN /\ client' = [client EXCEPT ![a] =
                            [variant |-> K8S_CLIENT_TYPES[client_type[a]], config |-> ambient,
                             api_client |-> "new_ApiClient"]]
            /\ Log(a, "yield")
            /\ error' = error
            /\ pc' = [pc EXCEPT ![a] = "yielded"]
       ELSE /\ client' = client
            /\ Log(a, "raise_ValueError")
            /\ error' = [error EXCEPT ![a] = "ValueError"]
            /\ pc' = [pc EXCEPT ![a] = "finally"]
  /\ UNCHANGED <<cluster_config, client_type, configuration, client_config, ambient,
                 blockError, observed, uses>>

\* The caller's usage block makes an API call on the yielded client.
UseClient(a) ==
  /\ pc[a] = "yielded"
  /\ uses[a] < MaxUse
  /\ uses' = [uses EXCEPT ![a] = @ + 1]
  /\ UNCHANGED <<cluster_config, pc, client_type, configuration, client_config, ambient,
                 client, error, blockError, observed, trace>>

\* The usage block ends: normally or by an early return (e = None), or by
\* raising e, which the context manager throws into the generator at the yield.
BlockExit(a, e) ==
  /\ pc[a] = "yielded"
  /\ blockError' = [blockError EXCEPT ![a] = e]
  /\ error' = [error EXCEPT ![a] = e]
  /\ pc' = [pc EXCEPT ![a] = "finally"]
  /\ UNCHANGED <<cluster_config, client_type, configuration, client_config, ambient,
                 client, observed, uses, trace>>

\* Lines 106-107: the finally clause clears the generic client's pool manager;
\* the exception in flight, if any, goes on.
ReleasePool_NoFinally(a) ==
  /\ pc[a] = "finally"
  /\ IF error[a] = None THEN Log(a, "pool_clear") ELSE trace' = trace
  /\ pc' = [pc EXCEPT ![a] = "exit"]
  /\ UNCHANGED <<cluster_config, client_type, configuration, client_config, ambient,
                 client, error, blockError, observed, uses>>

ReleasePool_Swallows(a) ==
  /\ pc[a] = "finally"
  /\ Log(a, "pool_clear")
  /\ error' = [error EXCEPT ![a] = None]
  /\ pc' = [pc EXCEPT ![a] = "exit"]
  /\ UNCHANGED <<cluster_config, client_type, configuration, client_config, ambient,
                 client, blockError, observed, uses>>

ReleasePool_OnlyAfterYield(a) ==
  /\ pc[a] = "finally"
  /\ IF client[a] # NoClient THEN Log(a, "pool_clear") ELSE trace' = trace
  /\ pc' = [pc EXCEPT ![a] = "exit"]
  /\ UNCHANGED <<cluster_config, client_type, configuration, client_config, ambient,
                 client, error, blockError, observed, uses>>

ReleasePool(a) ==
  /\ pc[a] = "finally"
  /\ Log(a, "pool_clear")
  /\ pc' = [pc EXCEPT ![a] = "exit"]
  /\ UNCHANGED <<cluster_config, client_type, configuration, client_config, ambient,
                 client, error, blockError, observed, uses>>

\* Line 103: the `with ApiClient(...)` block is left; ApiClient.__exit__ closes
\* the generic client and does not suppress an exception, which then reaches the
\* caller of the scoped block.
ExitTransport(a) ==
  /\ pc[a] = "exit"
  /\ Log(a, "close_transport")
  /\ observed' = [observed EXCEPT ![a] = IF error[a] = None THEN "returned" ELSE error[a]]
  /\ pc' = [pc EXCEPT ![a] = IF client[a] # NoClient THEN "closed" ELSE "failed"]
  /\ UNCHANGED <<cluster_config, client_type, configuration, client_config, ambient,
                 client, error, blockError, uses>>

Next ==
  \E a \in Acqs :
    \/ \E ct \in ClientTypeInputs, conf \in ConfigurationInputs : GetClient(a, ct, conf)
    \/ \E ok \in BOOLEAN : ConfigureClient(a, ok)
    \/ \E outcome \in InclusterOutcomes : LoadIncluster(a, outcome)
    \/ \E ok \in BOOLEAN : LoadKubeConfig(a, ok)
    \/ ConstructClient(a)
    \/ UseClient(a)
    \/ \E e \in {None} \cup BlockErrors : BlockExit(a, e)
    \/ ReleasePool(a)
    \/ ExitTransport(a)

Spec == Init /\ [][Next]_vars

\* Lines 104-153: the steps of an acquisition once get_client has been called.
\* Each is a call that returns or raises, or the caller's block ending.
Step(a) ==
  \/ \E ok \in BOOLEAN : ConfigureClient(a, ok)
  \/ \E outcome \in InclusterOutcomes : LoadIncluster(a, outcome)
  \/ \E ok \in BOOLEAN : LoadKubeConfig(a, ok)
  \/ ConstructClient(a)
  \/ UseClient(a)
  \/ \E e \in {None} \cup BlockErrors : BlockExit(a, e)
  \/ ReleasePool(a)
  \/ ExitTransport(a)

\* The calling thread keeps running: a call under way returns or raises, and
\* the usage block comes to an end.
FairSpec == Spec /\ \A a \in Acqs : WF_vars(Step(a))

(***************************************************************************)
(* Vocabulary of the properties.                                           *)
(***************************************************************************)
Count(s, ev) == Cardinality({i \in DOMAIN s : s[i] = ev})

Has(s, ev) == \E i \in DOMAIN s : s[i] = ev

\* ev1 occurs in s and every occurrence of ev2 comes after one of ev1.
Before(s, ev1, ev2) ==
  \A j \in DOMAIN s : s[j] = ev2 => \E i \in DOMAIN s : i < j /\ s[i] = ev1

Terminal(a) == pc[a] \in {"closed", "failed"}

Mechanisms == {"configure_client", "load_incluster_config", "load_kube_config"}

\* C1: once the usage block of an acquisition has been entered, the pool of
\* its generic transport is cleared at most once at any moment and exactly once
\* by the time control is back with the caller, whether the block ended
\* normally, returned early or raised.
C1_ReleaseExactlyOnce ==
  \A a \in Acqs :
    Has(trace[a], "yield") =>
      /\ Count(trace[a], "pool_clear") <= 1
      /\ pc[a] \in {"yielded", "finally"} => Count(trace[a], "pool_clear") = 0
      /\ pc[a] \in {"exit", "closed", "failed"} => Count(trace[a], "pool_clear") = 1

C1_Witness ==
  \E a, b \in Acqs :
    /\ Terminal(a) /\ Has(trace[a], "yield") /\ blockError[a] # None
    /\ Terminal(b) /\ Has(trace[b], "yield") /\ blockError[b] = None
    /\ Count(trace[a], "pool_clear") = 1 /\ Count(trace[b], "pool_clear") = 1

\* C3: an acquisition on credentials that hold a cluster_config calls
\* configure_client exactly once during resolution, and never calls
\* load_incluster_config or load_kube_config.
C3_ExplicitConfigOnly ==
  \A a \in Acqs :
    cluster_config[a] # None =>
      /\ Count(trace[a], "configure_client") <= 1
      /\ pc[a] \notin {"idle", "resolve"} => Count(trace[a], "configure_client") = 1
      /\ ~Has(trace[a], "load_incluster_config")
      /\ ~Has(trace[a], "load_kube_config")
      /\ pc[a] # "fallback"

C3_Witness ==
  \E a \in Acqs :
    /\ cluster_config[a] # None
    /\ pc[a] = "closed"
    /\ Count(trace[a], "configure_client") = 1

\* C4: when configure_client of the held cluster_config raises, the acquisition
\* ends in failure with that very error, no other mechanism is tried after it
\* and no client is constructed or yielded.
C4_ExplicitConfigFailureIsFatal ==
  \A a \in Acqs :
    Has(trace[a], "configure_client_raised") =>
      /\ client[a] = NoClient
      /\ ~Has(trace[a], "yield")
      /\ ~Has(trace[a], "load_incluster_config")
      /\ ~Has(trace[a], "load_kube_config")
      /\ pc[a] \in {"finally", "exit", "failed"}
      /\ error[a] = "ConfigureClientError"
      /\ Terminal(a) => pc[a] = "failed" /\ observed[a] = "ConfigureClientError"

C4_Witness ==
  \E a \in Acqs :
    /\ Has(trace[a], "configure_client_raised")
    /\ pc[a] = "failed"
    /\ observed[a] = "ConfigureClientError"

\* C5: without a cluster_config, load_kube_config is called at most once, only
\* after load_incluster_config has raised ConfigException (the not-in-cluster
\* condition), exactly once when it has, and never when load_incluster_config
\* returned.
C5_FallbackOnceAfterNotInCluster ==
  \A a \in Acqs :
    cluster_config[a] = None =>
      /\ Count(trace[a], "load_kube_config") <= 1
      /\ Before(trace[a], "load_incluster_config_raised_ConfigException", "load_kube_config")
      /\ Before(trace[a], "load_incluster_config", "load_kube_config")
      /\ (Has(trace[a], "load_incluster_config_raised_ConfigException") /\ pc[a] # "fallback")
           => Count(trace[a], "load_kube_config") = 1
      /\ (Has(trace[a], "load_incluster_config")
            /\ ~Has(trace[a], "load_incluster_config_raised_ConfigException"))
           => ~Has(trace[a], "load_kube_config") /\ pc[a] # "fallback"

C5_Witness ==
  \E a, b \in Acqs :
    /\ cluster_config[a] = None /\ pc[a] = "closed"
    /\ Has(trace[a], "load_incluster_config_raised_ConfigException")
    /\ Count(trace[a], "load_kube_config") = 1
    /\ cluster_config[b] = None /\ pc[b] = "closed"
    /\ ~Has(trace[b], "load_kube_config")

\* C6: without a cluster_config, a failure of load_incluster_config other than
\* ConfigException reaches the caller and load_kube_config is not tried; an
\* acquisition yields a client after a failed call only when that failure was
\* the ConfigException of load_incluster_config.
C6_OnlyNotInClusterRecovered ==
  \A a \in Acqs :
    /\ \A o \in InclusterOutcomes \ {"ok", "ConfigException"} :
         Has(trace[a], "load_incluster_config_raised_" \o o) =>
           /\ ~Has(trace[a], "load_kube_config")
           /\ client[a] = NoClient
           /\ error[a] = o
           /\ pc[a] \in {"finally", "exit", "failed"}
           /\ Terminal(a) => observed[a] = o
    /\ (pc[a] \in {"fallback", "construct"} \/ Has(trace[a], "yield")) =>
         \A i \in DOMAIN trace[a] :
           trace[a][i] \in {"configure_client_raised", "load_kube_config_raised",
                            "load_incluster_config_raised_OSError"} => FALSE

C6_Witness ==
  \E a \in Acqs :
    /\ cluster_config[a] = None
    /\ Has(trace[a], "load_incluster_config_raised_OSError")
    /\ pc[a] = "failed"
    /\ observed[a] = "OSError"

\* C7: without a cluster_config, when load_incluster_config raised
\* ConfigException and load_kube_config then raises, the acquisition fails with
\* the load_kube_config error itself, no client is constructed or yielded and no
\* mechanism is called again.
C7_KubeConfigFailureIsFatal ==
  \A a \in Acqs :
    Has(trace[a], "load_kube_config_raised") =>
      /\ cluster_config[a] = None
      /\ Has(trace[a], "load_incluster_config_raised_ConfigException")
      /\ client[a] = NoClient
      /\ ~Has(trace[a], "yield")
      /\ Count(trace[a], "load_kube_config") = 1
      /\ Count(trace[a], "load_incluster_config") = 1
      /\ Count(trace[a], "configure_client") = 0
      /\ error[a] = "KubeConfigError"
      /\ pc[a] \in {"finally", "exit", "failed"}
      /\ Terminal(a) => pc[a] = "failed" /\ observed[a] = "KubeConfigError"

C7_Witness ==
  \E a \in Acqs :
    /\ Has(trace[a], "load_kube_config_raised")
    /\ pc[a] = "failed"
    /\ observed[a] = "KubeConfigError"

\* C8: when the usage block raises, the caller sees nothing before the pool has
\* been cleared, and what it then sees is the error the block raised.
C8_CleanupThenSameError ==
  \A a \in Acqs :
    blockError[a] # None =>
      /\ Count(trace[a], "pool_clear") = 0 => observed[a] = None
      /\ observed[a] # None =>
           /\ observed[a] = blockError[a]
           /\ Before(trace[a], "pool_clear", "close_transport")
           /\ Count(trace[a], "pool_clear") = 1
      /\ Terminal(a) => observed[a] = blockError[a]

C8_Witness ==
  \E a \in Acqs :
    /\ blockError[a] = "TransportFailure"
    /\ Terminal(a)
    /\ observed[a] = "TransportFailure"
    /\ Count(trace[a], "pool_clear") = 1

\* C2 (as claimed): an acquisition with a client_type outside K8S_CLIENT_TYPES
\* fails without having opened a transport and without having called any of
\* configure_client, load_incluster_config, load_kube_config.
C2_InvalidTypeFailsBeforeSideEffects ==
  \A a \in Acqs :
    (pc[a] = "failed" /\ client_type[a] \notin DOMAIN K8S_CLIENT_TYPES) =>
      /\ ~Has(trace[a], "open_transport")
      /\ \A m \in Mechanisms : ~Has(trace[a], m)

\* C9 (as claimed): in every acquisition the resolution calls all come before
\* the transport is opened, and an acquisition that failed during resolution
\* never opened a transport.
C9_ResolveBeforeTransport ==
  \A a \in Acqs :
    /\ \A i, j \in DOMAIN trace[a] :
         (trace[a][i] \in Mechanisms /\ trace[a][j] = "open_transport") => i < j
    /\ (pc[a] = "failed" /\ error[a] \in {"ConfigureClientError", "OSError", "KubeConfigError"})
         => ~Has(trace[a], "open_transport")

\* C10 (as claimed): when both acquisitions are under way and each was given an
\* explicit configuration, the process-wide default configuration has not been
\* written and each yielded client is built on the configuration its own call
\* was given.
C10_ExplicitConfigurationsIsolated ==
  (\A a \in Acqs : pc[a] # "idle" /\ configuration[a] # None) =>
    /\ ambient = "unset"
    /\ \A a \in Acqs : client[a] # NoClient => client[a].config = configuration[a]

\* C11: an acquisition with client_type apps, batch or core whose resolution
\* succeeded yields a client, and that client is an AppsV1Api for apps, a
\* BatchV1Api for batch and a CoreV1Api for core, never another variant.
C11_VariantMatchesClientType ==
  \A a \in Acqs :
    /\ client[a] # NoClient =>
         /\ client_type[a] \in {"apps", "batch", "core"}
         /\ client_type[a] = "apps" => client[a].variant = "AppsV1Api"
         /\ client_type[a] = "batch" => client[a].variant = "BatchV1Api"
         /\ client_type[a] = "core" => client[a].variant = "CoreV1Api"
    /\ (/\ client_type[a] \in {"apps", "batch", "core"}
        /\ pc[a] \notin {"idle", "resolve", "fallback", "construct"}
        /\ ~Has(trace[a], "configure_client_raised")
        /\ ~Has(trace[a], "load_incluster_config_raised_OSError")
        /\ ~Has(trace[a], "load_kube_config_raised"))
         => client[a] # NoClient
    /\ Has(trace[a], "yield") <=> client[a] # NoClient

C11_Witness ==
  \E a, b \in Acqs :
    /\ pc[a] = "closed" /\ client_type[a] = "batch" /\ client[a].variant = "BatchV1Api"
    /\ pc[b] = "closed" /\ client_type[b] = "core" /\ client[b].variant = "CoreV1Api"

\* C12 (as claimed): an acquisition with a client_type outside K8S_CLIENT_TYPES
\* always ends with the invalid-client-type error (the ValueError of lines
\* 150-153), whatever the configuration environment; a configuration error
\* never takes its place.
C12_InvalidTypeAlwaysValueError ==
  \A a \in Acqs :
    (Terminal(a) /\ client_type[a] \notin DOMAIN K8S_CLIENT_TYPES) =>
      observed[a] = "ValueError"

\* C13 (as claimed): the client yielded by an acquisition is bound to the
\* generic transport that acquisition opened (the one whose pool is cleared on
\* exit) and so runs on that transport's configuration; no other transport is
\* made for it.
C13_ClientBoundToGenericTransport ==
  \A a \in Acqs :
    client[a] # NoClient =>
      /\ client[a].api_client = "generic_client"
      /\ client[a].config = client_config[a]

\* C14: no step of any acquisition, on any path (client yielded, resolution
\* failure, invalid client type, failing usage block), changes the
\* cluster_config of a credentials block.
C14_ClusterConfigNeverWritten == [][cluster_config' = cluster_config]_vars

C14_Witness ==
  \E a, b \in Acqs :
    /\ cluster_config[a] # None /\ pc[a] = "failed"
    /\ Has(trace[a], "configure_client_raised")
    /\ cluster_config[b] # None /\ pc[b] = "closed" /\ blockError[b] # None

\* C15: when get_resource_specific_client fails after get_client has opened the
\* generic transport (a resolution error or an invalid client type, so nothing
\* is yielded), the pool of that transport is still cleared exactly once and the
\* caller observes that failure; every finished acquisition has opened one
\* generic transport, cleared its pool once and closed it once.
C15_FailureBeforeYieldStillReleases ==
  \A a \in Acqs :
    /\ (client[a] = NoClient /\ pc[a] \in {"exit", "failed"}) =>
         /\ Count(trace[a], "open_transport") = 1
         /\ Count(trace[a], "pool_clear") = 1
         /\ error[a] \in {"ConfigureClientError", "OSError", "KubeConfigError", "ValueError"}
    /\ pc[a] = "failed" =>
         /\ observed[a] = error[a]
         /\ Has(trace[a], "configure_client_raised") => observed[a] = "ConfigureClientError"
         /\ Has(trace[a], "load_incluster_config_raised_OSError") => observed[a] = "OSError"
         /\ Has(trace[a], "load_kube_config_raised") => observed[a] = "KubeConfigError"
         /\ Has(trace[a], "raise_ValueError") => observed[a] = "ValueError"
    /\ Terminal(a) =>
         /\ Count(trace[a], "open_transport") = 1
         /\ Count(trace[a], "pool_clear") = 1
         /\ Count(trace[a], "close_transport") = 1
         /\ Before(trace[a], "pool_clear", "close_transport")

C15_Witness ==
  \E a, b \in Acqs :
    /\ pc[a] = "failed" /\ observed[a] = "ValueError"
    /\ Count(trace[a], "pool_clear") = 1
    /\ pc[b] = "failed" /\ observed[b] = "KubeConfigError"
    /\ Count(trace[b], "pool_clear") = 1

\* C16: every acquisition that has been started, and whose usage block comes to
\* an end, reaches a terminal state (closed after a yielded client, or failed);
\* it does not stay in resolution, with the transport open or with the client
\* yielded for ever.
C16_EveryAcquisitionTerminates ==
  \A a \in Acqs : (pc[a] # "idle") ~> Terminal(a)

C16_Witness ==
  \E a, b \in Acqs :
    /\ pc[a] = "closed" /\ uses[a] = MaxUse
    /\ pc[b] = "failed" /\ Has(trace[b], "load_kube_config_raised")

====
